---- MODULE Spec2Model ----
(***************************************************************************)
(* ast-grep MCP server (src/main.py): startup configuration, the four      *)
(* tools registered on the FastMCP server, the helpers they call and the   *)
(* engine subprocess they start.                                           *)
(*                                                                         *)
(* Conventions.  A Python Optional is a sequence: <<>> is None and <<v>>   *)
(* is the value v.  A text (str) is a sequence of atoms whose              *)
(* concatenation is the text; a whitespace atom is one whitespace          *)
(* character and no other atom starts or ends with whitespace, so strip()  *)
(* and rstrip() are computed on atoms.  A tool call reaches its handler    *)
(* through the FastMCP argument model built from the handler's signature:  *)
(* only the declared parameters are bound, and a value outside a declared  *)
(* Literal type is refused before the handler body runs.                   *)
(***************************************************************************)
EXTENDS Integers, Sequences, FiniteSets, TLC

VARIABLES
    args_config,  \* --config on the command line (args.config), None when not given
    env_config,   \* AST_GREP_CONFIG in the environment, None when not set
    config_file,  \* the file at CONFIG_PATH as get_supported_languages finds it
    languages,    \* what get_supported_languages gave register_mcp_tools
    phase,        \* where run_mcp_server is: "startup", "configured" (line 311
                  \* done), "registered" (line 312 done), "serving" (mcp.run),
                  \* or "exited" (sys.exit)
    exit_status,  \* the status the process ended with, None while it runs
    registered,   \* the tools registered on the FastMCP server
    platform,     \* sys.platform of the host
    CONFIG_PATH,  \* the module global of main.py, line 13
    call,         \* the tool call being answered: tool name, arguments as sent,
                  \* and (engine) what the engine does when this call runs it
    invocations,  \* the subprocess.run calls made while answering it, in order
    result,       \* what the handler returned or raised
    prev          \* history: the call answered before this one, as it ended

vars == <<args_config, env_config, config_file, languages, phase, exit_status,
          registered, platform, CONFIG_PATH, call, invocations, result, prev>>

-----------------------------------------------------------------------------
(* Bounds of the model *)

MaxMatches == 2

MaxLimit == 3

MaxOffset == 2

-----------------------------------------------------------------------------
(* Python values *)

None == <<>>

Some(v) == <<v>>

IsNone(o) == o = <<>>

Val(o) == o[1]

Min(a, b) == IF a <= b THEN a ELSE b

Max(a, b) == IF a >= b THEN a ELSE b

Whitespace == {" ", "\n", "\t"}

RECURSIVE rstrip(_)
rstrip(s) ==
    IF s = <<>> THEN <<>>
    ELSE IF s[Len(s)] \in Whitespace THEN rstrip(SubSeq(s, 1, Len(s) - 1))
    ELSE s

RECURSIVE lstrip(_)
lstrip(s) ==
    IF s = <<>> THEN <<>>
    ELSE IF s[1] \in Whitespace THEN lstrip(Tail(s))
    ELSE s

strip(s) == rstrip(lstrip(s))

\* seq[:n] of Python: a negative n counts from the end
SliceTo(s, n) ==
    IF n >= 0 THEN SubSeq(s, 1, Min(n, Len(s)))
    ELSE SubSeq(s, 1, Max(0, Len(s) + n))

\* sep.join(parts)
RECURSIVE join(_, _)
join(sep, parts) ==
    IF parts = <<>> THEN <<>>
    ELSE IF Len(parts) = 1 THEN parts[1]
    ELSE parts[1] \o sep \o join(sep, Tail(parts))

\* d.get(key, default) on a record
Get(d, key, default) == IF key \in DOMAIN d THEN d[key] ELSE default

-----------------------------------------------------------------------------
(* The engine's matches and what an engine run can do *)

MatchA ==
    [file |-> "a.py",
     range |-> [start |-> [line |-> 10], end |-> [line |-> 10]],
     text |-> <<"x=1">>]

MatchB ==
    [file |-> "b.py",
     range |-> [start |-> [line |-> 9], end |-> [line |-> 10]],
     text |-> <<" ", "def f():", "\n", " ", "pass", " ", "\n">>]

Matches == {MatchA, MatchB}

RECURSIVE SeqsUpTo(_, _)
SeqsUpTo(S, n) ==
    IF n = 0 THEN {<<>>}
    ELSE LET shorter == SeqsUpTo(S, n - 1)
         IN shorter \cup {Append(s, x) : s \in {t \in shorter : Len(t) = n - 1}, x \in S}

MatchLists == SeqsUpTo(Matches, MaxMatches)

\* The JSON text of a match list, as the engine prints it: one atom, the
\* objects written by the names MatchName gives them.
MatchName(m) == IF m = MatchA THEN "{A}" ELSE "{B}"

RECURSIVE json_items(_)
json_items(l) ==
    IF l = <<>> THEN ""
    ELSE IF Len(l) = 1 THEN MatchName(l[1])
    ELSE MatchName(l[1]) \o "," \o json_items(Tail(l))

json_dumps(l) == "[" \o json_items(l) \o "]"

Stdouts ==
    {<<json_dumps(l), "\n">> : l \in MatchLists}
        \cup {<<>>, <<" ", "\n">>, <<"oops">>}

DebugTree == <<" ", "ROOT@0..10", "\n">>

\* What running the engine does on this host: it is not installed, or it runs
\* and ends with a status and the text of its two streams.
Engines ==
    {[installed |-> FALSE, returncode |-> 0, stdout |-> <<>>, stderr |-> <<>>]}
        \cup {[installed |-> TRUE, returncode |-> 0, stdout |-> o, stderr |-> <<>>] : o \in Stdouts}
        \cup {[installed |-> TRUE, returncode |-> 0, stdout |-> <<>>, stderr |-> DebugTree]}
        \cup {[installed |-> TRUE, returncode |-> c, stdout |-> <<>>, stderr |-> e] :
                c \in {1, 2}, e \in {<<>>, <<" ", "\n">>, <<" ", "boom", "\n">>}}

\* json.loads(text): the decoded value, or JSONDecodeError
json_loads(text) ==
    IF Len(text) = 1 /\ \E l \in MatchLists : json_dumps(l) = text[1]
    THEN [ok |-> TRUE, value |-> CHOOSE l \in MatchLists : json_dumps(l) = text[1]]
    ELSE [ok |-> FALSE, error |-> [type |-> "JSONDecodeError"]]

-----------------------------------------------------------------------------
(* Startup: parse_args_and_get_config and run_mcp_server *)

\* The files that exist on the host
ExistingPaths == {"/flag.yml", "/env.yml"}

os_path_exists(path) == path \in ExistingPaths

\* What --config and AST_GREP_CONFIG can hold: absent, empty, a file, no file
FlagValues == {None, Some(""), Some("/flag.yml"), Some("/gone.yml")}

EnvValues == {None, Some(""), Some("/env.yml"), Some("/gone.yml")}

\* bool(x) of an Optional[str]
Truthy(o) == ~IsNone(o) /\ Val(o) # ""

\* parse_args_and_get_config asking the environment first
parse_args_and_get_config_env_first(flag, env) ==
    IF Truthy(env)
    THEN IF ~os_path_exists(Val(env))
         THEN [exit |-> TRUE, path |-> None]
         ELSE [exit |-> FALSE, path |-> env]
    ELSE IF Truthy(flag)
    THEN IF ~os_path_exists(Val(flag))
         THEN [exit |-> TRUE, path |-> None]
         ELSE [exit |-> FALSE, path |-> flag]
    ELSE [exit |-> FALSE, path |-> None]

\* parse_args_and_get_config taking the path without looking for the file
parse_args_and_get_config_unchecked(flag, env) ==
    IF Truthy(flag) THEN [exit |-> FALSE, path |-> flag]
    ELSE IF Truthy(env) THEN [exit |-> FALSE, path |-> env]
    ELSE [exit |-> FALSE, path |-> None]

\* Lines 45-56: [exit |-> TRUE] is sys.exit(1); path is the CONFIG_PATH left
parse_args_and_get_config(flag, env) ==
    IF Truthy(flag)
    THEN IF ~os_path_exists(Val(flag))
         THEN [exit |-> TRUE, path |-> None]
         ELSE [exit |-> FALSE, path |-> flag]
    ELSE IF Truthy(env)
    THEN IF ~os_path_exists(Val(env))
         THEN [exit |-> TRUE, path |-> None]
         ELSE [exit |-> FALSE, path |-> env]
    ELSE [exit |-> FALSE, path |-> None]

Idle == [tool |-> "none"]

NoResult == [kind |-> "none"]

Raise(e) == [kind |-> "raise", error |-> e]

ReturnStr(text) == [kind |-> "return", type |-> "str", text |-> text]

ReturnList(items) == [kind |-> "return", type |-> "list", items |-> items]

-----------------------------------------------------------------------------
(* The capability advertiser: get_supported_languages *)

\* Lines 257-262
Baseline ==
    <<"bash", "c", "cpp", "csharp", "css", "elixir", "go", "haskell",
      "html", "java", "javascript", "json", "jsx", "kotlin", "lua",
      "nix", "php", "python", "ruby", "rust", "scala", "solidity",
      "swift", "tsx", "typescript", "yaml">>

\* A YAML key that is an integer, written by its digits; every other key is a str
IntKeys == {"1"}

\* The keys a customLanguages mapping can have, in the order of the file
KeyLists == {<<>>, <<"mylang">>, <<"python", "mylang">>, <<"1">>, <<"mylang", "1">>}

\* The value under customLanguages: type is its Python type
NoCustom == [type |-> "NoneType", keys |-> <<>>]

CustomLanguagesValues ==
    {NoCustom, [type |-> "list", keys |-> <<>>]}
        \cup {[type |-> "dict", keys |-> k] : k \in KeyLists}

\* What yaml.safe_load returns: type is its Python type, contains is what
\* 'customLanguages' in config gives where the type allows the test
Document(type, contains, custom) ==
    [type |-> type, contains |-> contains, custom |-> custom]

Documents ==
    {Document("NoneType", FALSE, NoCustom), Document("int", FALSE, NoCustom),
     Document("list", FALSE, NoCustom), Document("list", TRUE, NoCustom),
     Document("str", TRUE, NoCustom), Document("dict", FALSE, NoCustom)}
        \cup {Document("dict", TRUE, c) : c \in CustomLanguagesValues}

PlainDocument == Document("dict", FALSE, NoCustom)

\* The file at CONFIG_PATH when get_supported_languages runs: it can have
\* been removed since startup looked for it, open() can fail, and
\* yaml.safe_load can fail
ConfigFiles ==
    {[exists |-> FALSE, readable |-> FALSE, parsable |-> FALSE, config |-> PlainDocument],
     [exists |-> TRUE, readable |-> FALSE, parsable |-> FALSE, config |-> PlainDocument],
     [exists |-> TRUE, readable |-> TRUE, parsable |-> FALSE, config |-> PlainDocument]}
        \cup {[exists |-> TRUE, readable |-> TRUE, parsable |-> TRUE, config |-> d] :
                d \in Documents}

PlainConfig ==
    [exists |-> TRUE, readable |-> TRUE, parsable |-> TRUE, config |-> PlainDocument]

\* Lines 267-274: the keys the try block adds; <<>> when a line of it raises,
\* which except Exception: pass swallows
custom_langs(file) ==
    IF ~file.readable THEN <<>>                    \* open() raises OSError
    ELSE IF ~file.parsable THEN <<>>               \* safe_load raises YAMLError
    ELSE LET config == file.config
         IN IF config.type = "NoneType" THEN <<>>  \* config is falsy
            ELSE IF config.type = "int" THEN <<>>  \* in raises TypeError
            ELSE IF ~config.contains THEN <<>>
            ELSE IF config.type # "dict" THEN <<>> \* [...] raises TypeError
            ELSE IF config.custom.type # "dict" THEN <<>>  \* no .keys()
            ELSE config.custom.keys

\* The names of the model in the order sorted() puts strings
NameOrder ==
    <<"bash", "c", "cpp", "csharp", "css", "elixir", "go", "haskell",
      "html", "java", "javascript", "json", "jsx", "kotlin", "lua", "mylang",
      "nix", "php", "python", "ruby", "rust", "scala", "solidity",
      "swift", "tsx", "typescript", "yaml">>

InSet(S, x) == x \in S

\* sorted(set(names)) for names that are all str
sorted(S) == SelectSeq(NameOrder, LAMBDA x : InSet(S, x))

\* Lines 255-276.  sorted() is outside the try: it compares an int with a
\* str when a key is an int, and raises TypeError.
get_supported_languages(path, file) ==
    LET languages_list ==
            Baseline \o (IF Truthy(path) /\ file.exists THEN custom_langs(file)
                         ELSE <<>>)
        names == {languages_list[i] : i \in 1..Len(languages_list)}
    IN IF names \cap IntKeys # {}
       THEN Raise([type |-> "TypeError"])
       ELSE ReturnList(sorted(names))

-----------------------------------------------------------------------------
(* run_mcp_server, step by step *)

Tools == {"dump_syntax_tree", "test_match_code_rule", "find_code", "find_code_by_rule"}

\* Line 311: CONFIG_PATH is assigned on lines 50 and 56 only, so it is left
\* as it is when sys.exit(1) ends the process or when no path is given.
ParseArgs ==
    /\ phase = "startup"
    /\ LET r == parse_args_and_get_config(args_config, env_config)
       IN /\ CONFIG_PATH' = IF r.exit \/ IsNone(r.path) THEN CONFIG_PATH ELSE r.path
          /\ phase' = IF r.exit THEN "exited" ELSE "configured"
          /\ exit_status' = IF r.exit THEN Some(1) ELSE exit_status
    /\ UNCHANGED <<args_config, env_config, config_file, languages,
                   registered, platform, call, invocations, result, prev>>

\* Line 312 (lines 63-226): the four @mcp.tool() definitions.  The first
\* one's signature calls get_supported_languages (line 67, again on 104): an
\* exception there leaves register_mcp_tools and run_mcp_server and ends the
\* process with a traceback and status 1, no tool registered.
register_mcp_tools ==
    /\ phase = "configured"
    /\ languages' = get_supported_languages(CONFIG_PATH, config_file)
    /\ IF languages'.kind = "raise"
       THEN /\ phase' = "exited"
            /\ exit_status' = Some(1)
            /\ UNCHANGED registered
       ELSE /\ phase' = "registered"
            /\ registered' = Tools
            /\ UNCHANGED exit_status
    /\ UNCHANGED <<args_config, env_config, config_file, platform,
                   CONFIG_PATH, call, invocations, result, prev>>

\* Line 313: mcp.run(transport="stdio") serves the registered tools
mcp_run ==
    /\ phase = "registered"
    /\ phase' = "serving"
    /\ UNCHANGED <<args_config, env_config, config_file, languages,
                   exit_status, registered, platform, CONFIG_PATH, call,
                   invocations, result, prev>>

\* Lines 306-313
run_mcp_server ==
    \/ ParseArgs
    \/ register_mcp_tools
    \/ mcp_run

-----------------------------------------------------------------------------
(* The process invoker: run_command and run_ast_grep *)

\* Line 282
use_shell(args) == platform = "win32" /\ args[1] = "ast-grep"

\* subprocess.run(args, capture_output, input, text, check=True, shell): a
\* missing executable is FileNotFoundError on a direct exec and a failing
\* shell command when the shell resolves it; check=True turns a non-zero
\* status into CalledProcessError.
subprocess_run(args, shell, engine) ==
    IF ~engine.installed
    THEN IF shell
         THEN [exc |-> "CalledProcessError", returncode |-> 1, stdout |-> <<>>,
               stderr |-> <<"'ast-grep' is not recognized">>]
         ELSE [exc |-> "FileNotFoundError", returncode |-> 0, stdout |-> <<>>,
               stderr |-> <<>>]
    ELSE [exc |-> IF engine.returncode # 0 THEN "CalledProcessError" ELSE "none",
          returncode |-> engine.returncode,
          stdout |-> engine.stdout,
          stderr |-> engine.stderr]

\* run_command reporting the error stream as it is, with no placeholder
run_command_raw_stderr(args, input_text, engine) ==
    LET shell == use_shell(args)
        p == subprocess_run(args, shell, engine)
        made == << [args |-> args, input |-> input_text, shell |-> shell] >>
    IN IF p.exc = "CalledProcessError"
       THEN [raised |-> TRUE,
             error |-> [type |-> "RuntimeError", what |-> "failed",
                        cmd |-> args, returncode |-> p.returncode,
                        stderr_msg |-> p.stderr],
             invocations |-> made]
       ELSE IF p.exc = "FileNotFoundError"
       THEN [raised |-> TRUE,
             error |-> [type |-> "RuntimeError", what |-> "not found",
                        name |-> args[1]],
             invocations |-> made]
       ELSE [raised |-> FALSE,
             stdout |-> p.stdout, stderr |-> p.stderr, returncode |-> p.returncode,
             invocations |-> made]

\* run_command trying a second time when the first subprocess fails
run_command_retry(args, input_text, engine) ==
    LET shell == use_shell(args)
        p == subprocess_run(args, shell, engine)
        made == << [args |-> args, input |-> input_text, shell |-> shell] >>
    IN IF p.exc = "CalledProcessError"
       THEN [raised |-> TRUE,
             error |-> [type |-> "RuntimeError", what |-> "failed",
                        cmd |-> args, returncode |-> p.returncode,
                        stderr_msg |-> IF p.stderr # <<>> THEN strip(p.stderr)
                                       ELSE <<"(no error output)">>],
             invocations |-> made \o made]
       ELSE IF p.exc = "FileNotFoundError"
       THEN [raised |-> TRUE,
             error |-> [type |-> "RuntimeError", what |-> "not found",
                        name |-> args[1]],
             invocations |-> made \o made]
       ELSE [raised |-> FALSE,
             stdout |-> p.stdout, stderr |-> p.stderr, returncode |-> p.returncode,
             invocations |-> made]

\* Lines 278-299.  invocations: the subprocess.run calls made.
run_command(args, input_text, engine) ==
    LET shell == use_shell(args)
        p == subprocess_run(args, shell, engine)
        made == << [args |-> args, input |-> input_text, shell |-> shell] >>
    IN IF p.exc = "CalledProcessError"
       THEN [raised |-> TRUE,
             error |-> [type |-> "RuntimeError", what |-> "failed",
                        cmd |-> args, returncode |-> p.returncode,
                        stderr_msg |-> IF p.stderr # <<>> THEN strip(p.stderr)
                                       ELSE <<"(no error output)">>],
             invocations |-> made]
       ELSE IF p.exc = "FileNotFoundError"
       THEN [raised |-> TRUE,
             error |-> [type |-> "RuntimeError", what |-> "not found",
                        name |-> args[1]],
             invocations |-> made]
       ELSE [raised |-> FALSE,
             stdout |-> p.stdout, stderr |-> p.stderr, returncode |-> p.returncode,
             invocations |-> made]

\* ast_grep_argv with the configuration pair put after the arguments
ast_grep_argv_appended(command, args) ==
    <<"ast-grep", command>>
        \o args
        \o (IF Truthy(CONFIG_PATH) THEN <<"--config", Val(CONFIG_PATH)>> ELSE <<>>)

\* Lines 302-304: the argument list handed to run_command
ast_grep_argv(command, args) ==
    <<"ast-grep", command>>
        \o (IF Truthy(CONFIG_PATH) THEN <<"--config", Val(CONFIG_PATH)>> ELSE <<>>)
        \o args

\* run_ast_grep remembering the last run: the same argument list again is
\* answered from the output kept, with no subprocess
run_ast_grep_memo(command, args, input_text, engine) ==
    IF /\ prev.invocations # <<>>
       /\ prev.invocations[1].args = ast_grep_argv(command, args)
       /\ prev.result.kind = "return"
    THEN [raised |-> FALSE,
          stdout |-> prev.call.engine.stdout, stderr |-> prev.call.engine.stderr,
          returncode |-> 0, invocations |-> <<>>]
    ELSE run_command(ast_grep_argv(command, args), input_text, engine)

\* run_ast_grep keeping the engine's last output in the process: once a run
\* has succeeded, later calls are answered from it, whatever they ask for
run_ast_grep_last_output(command, args, input_text, engine) ==
    IF prev.invocations # <<>> /\ prev.result.kind = "return"
    THEN [raised |-> FALSE,
          stdout |-> prev.call.engine.stdout, stderr |-> prev.call.engine.stderr,
          returncode |-> 0,
          invocations |-> << [args |-> ast_grep_argv(command, args),
                              input |-> input_text,
                              shell |-> use_shell(<<"ast-grep">>)] >>]
    ELSE run_command(ast_grep_argv(command, args), input_text, engine)

\* Lines 301-304
run_ast_grep(command, args, input_text, engine) ==
    run_command(ast_grep_argv(command, args), input_text, engine)

-----------------------------------------------------------------------------
(* The match renderer: format_matches_as_text *)

\* format_block printing the range's line numbers as they are, from 0
format_block_zero_based(m) ==
    LET file_path  == Get(m, "file", "")
        range      == Get(m, "range", [none |-> 0])
        start_line == Get(Get(range, "start", [none |-> 0]), "line", 0)
        end_line   == Get(Get(range, "end", [none |-> 0]), "line", 0)
        match_text == rstrip(Get(m, "text", <<>>))
        header     == IF start_line = end_line
                      THEN <<file_path, ":", ToString(start_line)>>
                      ELSE <<file_path, ":", ToString(start_line), "-", ToString(end_line)>>
    IN header \o <<"\n">> \o match_text

\* Lines 240-251: one block, header line then the text
format_block(m) ==
    LET file_path  == Get(m, "file", "")
        range      == Get(m, "range", [none |-> 0])
        start_line == Get(Get(range, "start", [none |-> 0]), "line", 0) + 1
        end_line   == Get(Get(range, "end", [none |-> 0]), "line", 0) + 1
        match_text == rstrip(Get(m, "text", <<>>))
        header     == IF start_line = end_line
                      THEN <<file_path, ":", ToString(start_line)>>
                      ELSE <<file_path, ":", ToString(start_line), "-", ToString(end_line)>>
    IN header \o <<"\n">> \o match_text

\* format_matches_as_text with a line break, not a blank line, between blocks
format_matches_as_text_no_blank_line(matches) ==
    IF matches = <<>> THEN <<>>
    ELSE join(<<"\n">>, [i \in 1..Len(matches) |-> format_block(matches[i])])

\* Lines 229-253
format_matches_as_text(matches) ==
    IF matches = <<>> THEN <<>>
    ELSE join(<<"\n", "\n">>, [i \in 1..Len(matches) |-> format_block(matches[i])])

-----------------------------------------------------------------------------
(* The tools *)

\* DumpFormat with one more value let through
DumpFormat_open == {"pattern", "cst", "ast", "xml"}

\* Line 61
DumpFormat == {"pattern", "cst", "ast"}

\* OutputFormats with one more value let through
OutputFormats_open == {"text", "json", "xml"}

\* Lines 139 and 204
OutputFormats == {"text", "json"}

\* find_code_args with --lang given whatever the language
find_code_args_always_lang(project_folder, pattern, language) ==
    <<"--pattern", pattern>> \o <<"--lang", language>> \o <<"--json", project_folder>>

\* Lines 142-147: the arguments find_code gives run_ast_grep
find_code_args(project_folder, pattern, language) ==
    <<"--pattern", pattern>>
        \o (IF language # "" THEN <<"--lang", language>> ELSE <<>>)
        \o <<"--json", project_folder>>

\* Lines 207-210: the arguments find_code_by_rule gives run_ast_grep
find_code_by_rule_args(project_folder, yaml) ==
    <<"--inline-rules", yaml>> \o <<"--json", project_folder>>

\* limit_matches keeping one match too many
limit_matches_one_more(matches, max_results) ==
    IF ~IsNone(max_results) /\ Len(matches) > Val(max_results)
    THEN SliceTo(matches, Val(max_results) + 1)
    ELSE matches

\* Lines 151-153 (and 214-216): the matches kept
limit_matches(matches, max_results) ==
    IF ~IsNone(max_results) /\ Len(matches) > Val(max_results)
    THEN SliceTo(matches, Val(max_results))
    ELSE matches

\* text_header counting the engine's matches, not the ones shown
text_header_total(shown, total_matches, max_results) ==
    <<"Found ", ToString(total_matches), " matches">>
        \o (IF ~IsNone(max_results) /\ total_matches > Val(max_results)
            THEN <<" (showing first ", ToString(Val(max_results)), " of ",
                   ToString(total_matches), ")">>
            ELSE <<>>)

\* Lines 159-161 (and 222-224): the header above the blocks
text_header(shown, total_matches, max_results) ==
    <<"Found ", ToString(shown), " matches">>
        \o (IF ~IsNone(max_results) /\ total_matches > Val(max_results)
            THEN <<" (showing first ", ToString(Val(max_results)), " of ",
                   ToString(total_matches), ")">>
            ELSE <<>>)

\* Lines 148-163 (and 211-226): from the engine's standard output to the result
search_result(stdout, max_results, output_format) ==
    LET text    == strip(stdout)
        decoded == json_loads(IF text # <<>> THEN text ELSE <<"[]">>)
    IN IF ~decoded.ok THEN Raise(decoded.error)
       ELSE LET total_matches == Len(decoded.value)
                matches == limit_matches(decoded.value, max_results)
            IN IF output_format = "text"
               THEN IF matches = <<>> THEN ReturnStr(<<"No matches found">>)
                    ELSE ReturnStr(text_header(Len(matches), total_matches, max_results)
                                     \o <<":", "\n", "\n">>
                                     \o format_matches_as_text(matches))
               ELSE ReturnList(matches)

\* Lines 139-163: the body of find_code
find_code_body(project_folder, pattern, language, max_results, output_format, engine) ==
    IF output_format \notin OutputFormats
    THEN [invocations |-> <<>>,
          result |-> Raise([type |-> "ValueError", what |-> "Invalid output_format"])]
    ELSE LET r == run_ast_grep("run", find_code_args(project_folder, pattern, language),
                               None, engine)
         IN [invocations |-> r.invocations,
             result |-> IF r.raised THEN Raise(r.error)
                        ELSE search_result(r.stdout, max_results, output_format)]

\* Lines 204-226: the body of find_code_by_rule
find_code_by_rule_body(project_folder, yaml, max_results, output_format, engine) ==
    IF output_format \notin OutputFormats
    THEN [invocations |-> <<>>,
          result |-> Raise([type |-> "ValueError", what |-> "Invalid output_format"])]
    ELSE LET r == run_ast_grep("scan", find_code_by_rule_args(project_folder, yaml),
                               None, engine)
         IN [invocations |-> r.invocations,
             result |-> IF r.raised THEN Raise(r.error)
                        ELSE search_result(r.stdout, max_results, output_format)]

\* test_match_code_rule_body answering an empty list like the search tools do
test_match_code_rule_body_empty_ok(code, yaml, engine) ==
    LET r == run_ast_grep("scan", <<"--inline-rules", yaml, "--json", "--stdin">>,
                          Some(code), engine)
    IN [invocations |-> r.invocations,
        result |->
            IF r.raised THEN Raise(r.error)
            ELSE LET decoded == json_loads(strip(r.stdout))
                 IN IF ~decoded.ok THEN Raise(decoded.error)
                    ELSE ReturnList(decoded.value)]

\* test_match_code_rule_body handing the code over as an argument
test_match_code_rule_body_code_as_argument(code, yaml, engine) ==
    LET r == run_ast_grep("scan", <<"--inline-rules", yaml, "--json", code>>,
                          None, engine)
    IN [invocations |-> r.invocations,
        result |->
            IF r.raised THEN Raise(r.error)
            ELSE LET decoded == json_loads(strip(r.stdout))
                 IN IF ~decoded.ok THEN Raise(decoded.error)
                    ELSE IF decoded.value = <<>>
                    THEN Raise([type |-> "ValueError", what |-> "No matches found"])
                    ELSE ReturnList(decoded.value)]

\* Lines 94-98: the body of test_match_code_rule
test_match_code_rule_body(code, yaml, engine) ==
    LET r == run_ast_grep("scan", <<"--inline-rules", yaml, "--json", "--stdin">>,
                          Some(code), engine)
    IN [invocations |-> r.invocations,
        result |->
            IF r.raised THEN Raise(r.error)
            ELSE LET decoded == json_loads(strip(r.stdout))
                 IN IF ~decoded.ok THEN Raise(decoded.error)
                    ELSE IF decoded.value = <<>>
                    THEN Raise([type |-> "ValueError", what |-> "No matches found"])
                    ELSE ReturnList(decoded.value)]

\* Lines 65-81: format is a DumpFormat, which the argument model enforces
\* before the body (lines 80-81) runs
dump_syntax_tree_body(code, language, format, engine) ==
    IF format \notin DumpFormat
    THEN [invocations |-> <<>>,
          result |-> Raise([type |-> "ValidationError", what |-> "format"])]
    ELSE LET r == run_ast_grep("run",
                               <<"--pattern", code, "--lang", language,
                                 "--debug-query=" \o format>>,
                               None, engine)
         IN [invocations |-> r.invocations,
             result |-> IF r.raised THEN Raise(r.error)
                        ELSE ReturnStr(strip(r.stderr))]

\* A tool is callable once the server serves, one call at a time
Callable == phase = "serving" /\ call = Idle

\* Answer with the handler taking the path from the environment again
Answer_rereading_config(c, body) ==
    /\ Callable
    /\ c.tool \in registered
    /\ call' = c
    /\ invocations' = body.invocations
    /\ result' = body.result
    /\ CONFIG_PATH' = env_config
    /\ UNCHANGED <<args_config, env_config, config_file, languages, phase,
                   exit_status, registered, platform, prev>>

Answer(c, body) ==
    /\ Callable
    /\ c.tool \in registered
    /\ call' = c
    /\ invocations' = body.invocations
    /\ result' = body.result
    /\ UNCHANGED <<args_config, env_config, config_file, languages, phase,
                   exit_status, registered, platform, CONFIG_PATH, prev>>

\* offset is no parameter of find_code (lines 101-108): a caller that sends
\* one has it dropped by the argument model, and the body never reads it.
find_code(project_folder, pattern, language, max_results, output_format, offset, engine) ==
    Answer([tool |-> "find_code", project_folder |-> project_folder,
               pattern |-> pattern, language |-> language,
               max_results |-> max_results, output_format |-> output_format,
               offset |-> offset, engine |-> engine],
              find_code_body(project_folder, pattern, language, max_results,
                             output_format, engine))

\* offset is no parameter of find_code_by_rule either (lines 166-171)
find_code_by_rule(project_folder, yaml, max_results, output_format, offset, engine) ==
    Answer([tool |-> "find_code_by_rule", project_folder |-> project_folder,
               yaml |-> yaml,
               max_results |-> max_results, output_format |-> output_format,
               offset |-> offset, engine |-> engine],
              find_code_by_rule_body(project_folder, yaml, max_results,
                                     output_format, engine))

test_match_code_rule(code, yaml, engine) ==
    Answer([tool |-> "test_match_code_rule", code |-> code, yaml |-> yaml,
               engine |-> engine],
              test_match_code_rule_body(code, yaml, engine))

dump_syntax_tree(code, language, format, engine) ==
    Answer([tool |-> "dump_syntax_tree", code |-> code, language |-> language,
               format |-> format, engine |-> engine],
              dump_syntax_tree_body(code, language, format, engine))

\* The handler has returned or raised and the response is sent: the server
\* waits for the next call.
Responded ==
    /\ phase = "serving"
    /\ call # Idle
    /\ call' = Idle
    /\ invocations' = <<>>
    /\ result' = NoResult
    /\ UNCHANGED <<args_config, env_config, config_file, languages, phase,
                   exit_status, registered, platform, CONFIG_PATH>>

Respond == Responded /\ UNCHANGED prev

-----------------------------------------------------------------------------
(* The calls a client makes *)

Folders == {"/a", "/b"}

Patterns == {"p1", "p2"}

Languages == {"", "python"}

Yamls == {"r1", "r2"}

Codes == {"c1", "c2"}

MaxResultsValues == {None} \cup {Some(n) : n \in -1..MaxLimit}

OffsetValues == {None} \cup {Some(n) : n \in -1..MaxOffset}

FormatValues == {"text", "json", "xml"}

DumpFormatValues == {"pattern", "cst", "ast", "xml"}

Init ==
    /\ args_config \in FlagValues
    /\ env_config \in EnvValues
    /\ config_file = PlainConfig
    /\ languages = NoResult
    /\ phase = "startup"
    /\ exit_status = None
    /\ registered = {}
    /\ platform \in {"linux", "win32"}
    /\ CONFIG_PATH = None
    /\ call = Idle
    /\ invocations = <<>>
    /\ result = NoResult
    /\ prev = [call |-> Idle, invocations |-> <<>>, result |-> NoResult]

Startup == run_mcp_server

FindCode ==
    /\ Callable
    /\ \E project_folder \in Folders, pattern \in Patterns, language \in Languages,
       max_results \in MaxResultsValues, output_format \in FormatValues,
       offset \in OffsetValues, engine \in Engines :
        find_code(project_folder, pattern, language, max_results, output_format,
                  offset, engine)

FindCodeByRule ==
    /\ Callable
    /\ \E project_folder \in Folders, yaml \in Yamls,
       max_results \in MaxResultsValues, output_format \in FormatValues,
       offset \in OffsetValues, engine \in Engines :
        find_code_by_rule(project_folder, yaml, max_results, output_format,
                          offset, engine)

TestMatchCodeRule ==
    /\ Callable
    /\ \E code \in Codes, yaml \in Yamls, engine \in Engines :
        test_match_code_rule(code, yaml, engine)

DumpSyntaxTree ==
    /\ Callable
    /\ \E code \in Codes, language \in Languages \ {""}, format \in DumpFormatValues,
       engine \in Engines :
        dump_syntax_tree(code, language, format, engine)

Next ==
    \/ Startup
    \/ FindCode
    \/ FindCodeByRule
    \/ TestMatchCodeRule
    \/ DumpSyntaxTree
    \/ Respond

Spec == Init /\ [][Next]_vars

-----------------------------------------------------------------------------
(* A client that pages: the same search again with the next offset.  The    *)
(* call just answered is kept in prev when the next one arrives.             *)

RespondRecorded ==
    /\ Responded
    /\ prev' = [call |-> call, invocations |-> invocations, result |-> result]

PagingLimits == {Some(1), Some(2)}

PagingOffsets == {Some(n) : n \in 0..MaxOffset}

PagingEngines ==
    {[installed |-> TRUE, returncode |-> 0, stdout |-> <<json_dumps(l), "\n">>,
      stderr |-> <<>>] : l \in {<<>>, <<MatchA>>, <<MatchA, MatchB>>}}
        \cup {[installed |-> TRUE, returncode |-> 1, stdout |-> <<>>, stderr |-> <<>>]}

PagedFindCode ==
    /\ Callable
    /\ \E project_folder \in Folders, pattern \in Patterns, language \in Languages,
          max_results \in PagingLimits, offset \in PagingOffsets,
          engine \in PagingEngines :
            find_code(project_folder, pattern, language, max_results, "json",
                      offset, engine)

PagedFindCodeByRule ==
    /\ Callable
    /\ \E yaml \in Yamls, max_results \in PagingLimits, offset \in PagingOffsets,
          engine \in PagingEngines :
            find_code_by_rule("/a", yaml, max_results, "json", offset, engine)

NextPaging ==
    \/ Startup
    \/ PagedFindCode
    \/ PagedFindCodeByRule
    \/ RespondRecorded

SpecPaging == Init /\ [][NextPaging]_vars

-----------------------------------------------------------------------------
(* Reading a call and its result, for the properties below *)

SearchTools == {"find_code", "find_code_by_rule"}

IsSearch(c) == c.tool \in SearchTools

\* The search key of a call: what is searched for, where, in which language
KeyOf(c) ==
    IF c.tool = "find_code"
    THEN <<"find_code", c.pattern, c.project_folder, c.language>>
    ELSE <<"find_code_by_rule", c.yaml, c.project_folder, "">>

\* The engine ran, ended with status 0 and printed a match list
EngineListed(c) ==
    /\ c.engine.installed
    /\ c.engine.returncode = 0
    /\ \E l \in MatchLists : c.engine.stdout = <<json_dumps(l), "\n">>

\* ... and this is the list it printed
EngineList(c) == CHOOSE l \in MatchLists : c.engine.stdout = <<json_dumps(l), "\n">>

OffsetOf(c) == IF IsNone(c.offset) THEN 0 ELSE Val(c.offset)

Returned(r) == r.kind = "return"

Rejected(r) ==
    r.kind = "raise" /\ r.error.type \in {"ValueError", "ValidationError"}

NoMatchesText == <<"No matches found">>

\* Where the header of a text result ends: the first ":" that a blank line follows
RECURSIVE HeaderEnd(_, _)
HeaderEnd(text, i) ==
    IF i + 2 > Len(text) THEN 0
    ELSE IF text[i] = ":" /\ text[i + 1] = "\n" /\ text[i + 2] = "\n" THEN i
    ELSE HeaderEnd(text, i + 1)

HeaderOf(text) == SubSeq(text, 1, HeaderEnd(text, 1) - 1)

BodyOf(text) == SubSeq(text, HeaderEnd(text, 1) + 3, Len(text))

\* The blocks of a rendered body: the runs of text that blank lines separate
RECURSIVE SplitBlocks(_, _)
SplitBlocks(text, block) ==
    IF text = <<>> THEN <<block>>
    ELSE IF Len(text) >= 2 /\ text[1] = "\n" /\ text[2] = "\n"
    THEN <<block>> \o SplitBlocks(SubSeq(text, 3, Len(text)), <<>>)
    ELSE SplitBlocks(Tail(text), Append(block, text[1]))

BlocksOf(text) == SplitBlocks(BodyOf(text), <<>>)

\* A text result that lists matches
ListsMatches(r) == Returned(r) /\ r.type = "str" /\ r.text # NoMatchesText

\* The number of matches a result holds
CountOf(r) ==
    IF r.type = "list" THEN Len(r.items)
    ELSE IF r.text = NoMatchesText THEN 0
    ELSE Len(BlocksOf(r.text))

HasNotice(text) == Len(HeaderOf(text)) > 3

IsPrefix(s, t) == Len(s) <= Len(t) /\ s = SubSeq(t, 1, Len(s))

-----------------------------------------------------------------------------
(* C1, as claimed: a search call invokes the engine if and only if its       *)
(* offset is 0, or no cache entry exists, or the cached key differs from its *)
(* key in some field; a call with a non-zero offset and the cached key       *)
(* invokes no engine process and is served from the cached match list.  The  *)
(* cache entry after a search call that returned is that call's key and the  *)
(* list it was answered from.                                                *)

ValidSearch(c) ==
    IsSearch(c) /\ c.output_format \in {"text", "json"} /\ OffsetOf(c) >= 0

\* The call before was a search that returned: its key is the cached key
PrevSearched == IsSearch(prev.call) /\ Returned(prev.result)

\* s[offset : offset + limit] of Python
Window(s, offset, limit) ==
    SubSeq(s, offset + 1, Min(offset + limit, Len(s)))

-----------------------------------------------------------------------------
(* C2, as claimed: for a fixed key and a limit > 0 the windows of the calls  *)
(* with offset 0, limit, 2*limit, ... concatenate to the match list of the   *)
(* offset-0 call, nothing missing and nothing repeated: the window at offset *)
(* limit continues the window at offset 0 (here even when the engine lists   *)
(* the same matches at both calls).                                          *)

\* The call before had offset 0 and this one asks for the window after it
SecondPage ==
    /\ ValidSearch(call) /\ PrevSearched
    /\ KeyOf(call) = KeyOf(prev.call)
    /\ call.max_results = prev.call.max_results
    /\ ~IsNone(call.max_results) /\ Val(call.max_results) > 0
    /\ OffsetOf(prev.call) = 0
    /\ OffsetOf(call) = Val(call.max_results)
    /\ EngineListed(prev.call)
    /\ Returned(result) /\ result.type = "list" /\ prev.result.type = "list"

-----------------------------------------------------------------------------
(* C3: a search call with offset < 0, or with max_results given and <= 0, is *)
(* rejected with a parameter error and starts no engine subprocess.          *)

C3_BadPagingRejected ==
    (IsSearch(call)
        /\ \/ ~IsNone(call.offset) /\ Val(call.offset) < 0
           \/ ~IsNone(call.max_results) /\ Val(call.max_results) <= 0)
    => Rejected(result) /\ invocations = <<>>

-----------------------------------------------------------------------------
(* C4, as claimed: in every window returned, returned is the number of       *)
(* matches in the window and has_more, which a text result shows as the      *)
(* notice "(showing first K of M)", equals offset + returned < total; a call *)
(* with offset >= total_matches returns an empty window.                     *)

-----------------------------------------------------------------------------
(* C5: whenever max_results is given, the matches returned (json) or         *)
(* rendered (text) are the first min(max_results, total) matches of the      *)
(* engine's list, in its order, each whole, never more than max_results (a   *)
(* max_results below 0 read as allowing no match at all).                    *)

C5_FirstMaxResults ==
    (IsSearch(call) /\ EngineListed(call) /\ Returned(result)
        /\ ~IsNone(call.max_results))
    => LET all == EngineList(call)
           n == Max(0, Min(Val(call.max_results), Len(all)))
       IN /\ CountOf(result) <= Max(0, Val(call.max_results))
          /\ CountOf(result) = n
          /\ result.type = "list" => result.items = SubSeq(all, 1, n)
          /\ ListsMatches(result)
                => BlocksOf(result.text) = [i \in 1..n |-> format_block(all[i])]

-----------------------------------------------------------------------------
(* C6: a text result that lists matches starts "Found N matches", N the      *)
(* number of blocks below it; "(showing first K of M)" follows exactly when  *)
(* the result was truncated, with K = N = max_results, M the engine's total  *)
(* and M > K.                                                                *)

C6_Header ==
    (IsSearch(call) /\ EngineListed(call) /\ ListsMatches(result))
    => LET total == Len(EngineList(call))
           N == Len(BlocksOf(result.text))
       IN IF N < total
          THEN /\ ~IsNone(call.max_results)
               /\ Val(call.max_results) = N
               /\ HeaderOf(result.text)
                    = <<"Found ", ToString(N), " matches",
                        " (showing first ", ToString(N), " of ", ToString(total), ")">>
          ELSE HeaderOf(result.text) = <<"Found ", ToString(N), " matches">>

-----------------------------------------------------------------------------
(* C7: the argument list of every engine invocation, by any tool, is         *)
(* "ast-grep", the subcommand, then "--config" and the path as third and     *)
(* fourth elements when the configuration path is set, then the operation's  *)
(* arguments in their order; with no path set there is no "--config".        *)

\* The arguments each tool's operation has, from the call as sent
OperationArgs(c) ==
    IF c.tool = "find_code"
    THEN <<"--pattern", c.pattern>>
            \o (IF c.language = "" THEN <<>> ELSE <<"--lang", c.language>>)
            \o <<"--json", c.project_folder>>
    ELSE IF c.tool = "find_code_by_rule"
    THEN <<"--inline-rules", c.yaml, "--json", c.project_folder>>
    ELSE IF c.tool = "test_match_code_rule"
    THEN <<"--inline-rules", c.yaml, "--json", "--stdin">>
    ELSE <<"--pattern", c.code, "--lang", c.language, "--debug-query=" \o c.format>>

Subcommand(c) ==
    IF c.tool \in {"find_code", "dump_syntax_tree"} THEN "run" ELSE "scan"

Elements(s) == {s[i] : i \in 1..Len(s)}

C7_ConfigAfterSubcommand ==
    \A i \in 1..Len(invocations) :
        LET argv == invocations[i].args
        IN /\ Len(argv) >= 2
           /\ argv[1] = "ast-grep"
           /\ argv[2] = Subcommand(call)
           /\ IF CONFIG_PATH # None
              THEN /\ Len(argv) >= 4
                   /\ argv[3] = "--config"
                   /\ argv[4] = Val(CONFIG_PATH)
                   /\ SubSeq(argv, 5, Len(argv)) = OperationArgs(call)
              ELSE /\ "--config" \notin Elements(argv)
                   /\ SubSeq(argv, 3, Len(argv)) = OperationArgs(call)

C7_Witness ==
    /\ CONFIG_PATH = Some("/env.yml")
    /\ call.tool = "test_match_code_rule"
    /\ Len(invocations) = 1
    /\ invocations[1].args[3] = "--config"

-----------------------------------------------------------------------------
(* C8: find_code passes the engine "--pattern", pattern, then "--lang",      *)
(* language exactly when language is non-empty, then "--json", then the      *)
(* folder last; find_code_by_rule passes "--inline-rules", yaml, "--json",   *)
(* folder; "--json" is there for text output too, and max_results and        *)
(* output_format never change the list.                                      *)

\* What the tool handed run_ast_grep: the list after the configuration pair
PassedArgs(argv) ==
    IF Len(argv) >= 3 /\ argv[3] = "--config"
    THEN SubSeq(argv, 5, Len(argv))
    ELSE SubSeq(argv, 3, Len(argv))

-----------------------------------------------------------------------------
(* C9: a find_code or find_code_by_rule call whose output_format is neither  *)
(* "text" nor "json" fails with an invalid-parameter error and starts no     *)
(* engine subprocess.                                                        *)

C9_BadOutputFormatRejected ==
    (IsSearch(call) /\ call.output_format \notin {"text", "json"})
    => /\ result = Raise([type |-> "ValueError", what |-> "Invalid output_format"])
       /\ invocations = <<>>

C9_Witness ==
    /\ call.tool = "find_code_by_rule"
    /\ call.output_format = "xml"
    /\ call.engine.installed
    /\ result.kind = "raise"

-----------------------------------------------------------------------------
(* C10: a dump_syntax_tree call whose format is not pattern, cst or ast is   *)
(* rejected before an argument list is built; no engine subprocess starts.   *)

C10_BadDumpFormatRejected ==
    (call.tool = "dump_syntax_tree" /\ call.format \notin {"pattern", "cst", "ast"})
    => /\ Rejected(result)
       /\ invocations = <<>>

C10_Witness ==
    /\ call.tool = "dump_syntax_tree"
    /\ call.format = "xml"
    /\ call.engine.installed
    /\ result.kind = "raise"

-----------------------------------------------------------------------------
(* C11: for find_code, find_code_by_rule and test_match_code_rule, an engine *)
(* run that exits 0 with empty or whitespace-only standard output is taken   *)
(* as an empty match array and never gives a decoding error; the two search  *)
(* tools then answer "No matches found" in text format and the empty list    *)
(* in json format.                                                           *)

DecodingTools == {"find_code", "find_code_by_rule", "test_match_code_rule"}

\* The engine ran, ended with status 0 and printed nothing but whitespace
EnginePrintedNothing(c) ==
    /\ c.engine.installed
    /\ c.engine.returncode = 0
    /\ strip(c.engine.stdout) = <<>>

DecodingError(r) == r.kind = "raise" /\ r.error.type = "JSONDecodeError"

C11_EmptyOutputIsEmptyArray ==
    (call.tool \in DecodingTools /\ invocations # <<>> /\ EnginePrintedNothing(call))
    => /\ ~DecodingError(result)
       /\ (IsSearch(call) /\ call.output_format = "text")
             => result = ReturnStr(NoMatchesText)
       /\ (IsSearch(call) /\ call.output_format = "json")
             => result = ReturnList(<<>>)

-----------------------------------------------------------------------------
(* C12: test_match_code_rule fails with the "No matches found" error when    *)
(* the engine's match list for the code and rule is empty, and otherwise     *)
(* returns the engine's whole match list unchanged; for find_code and        *)
(* find_code_by_rule an empty match list is a result, never an error.        *)

NoMatchesError == Raise([type |-> "ValueError", what |-> "No matches found"])

-----------------------------------------------------------------------------
(* C13: test_match_code_rule runs the scan subcommand with exactly           *)
(* "--inline-rules", yaml, "--json", "--stdin" and gives the code only as    *)
(* the subprocess's input text: the code is never an element of the          *)
(* argument list; every other tool gives the subprocess no input text.       *)

C13_CodeOnlyAsInput ==
    /\ call.tool = "test_match_code_rule"
          => /\ Len(invocations) = 1
             /\ invocations[1].args[2] = "scan"
             /\ PassedArgs(invocations[1].args)
                    = <<"--inline-rules", call.yaml, "--json", "--stdin">>
             /\ invocations[1].input = Some(call.code)
             /\ call.code \notin Elements(invocations[1].args)
    /\ call.tool # "test_match_code_rule"
          => \A i \in 1..Len(invocations) : invocations[i].input = None

C13_Witness ==
    /\ call.tool = "test_match_code_rule"
    /\ Truthy(CONFIG_PATH)
    /\ Len(invocations) = 1
    /\ invocations[1].input = Some("c1")
    /\ Returned(result)

-----------------------------------------------------------------------------
(* C14: when the engine subprocess ends with a non-zero status, the tool     *)
(* call fails with an error that carries that exit code and the engine's     *)
(* error-stream text with the whitespace around it removed, or the           *)
(* placeholder "(no error output)" when the error stream is empty; no        *)
(* result value is returned.                                                 *)

\* The engine ran and ended with a non-zero status
EngineFailed(c) == c.engine.installed /\ c.engine.returncode # 0

NoErrorOutput == <<"(no error output)">>

C14_NonZeroExitFails ==
    (call # Idle /\ invocations # <<>> /\ EngineFailed(call))
    => /\ result.kind = "raise"
       /\ result.error.type = "RuntimeError"
       /\ result.error.what = "failed"
       /\ result.error.returncode = call.engine.returncode
       /\ result.error.stderr_msg
             = (IF call.engine.stderr = <<>> THEN NoErrorOutput
                ELSE strip(call.engine.stderr))

C14_Witness ==
    /\ call.tool = "dump_syntax_tree"
    /\ EngineFailed(call)
    /\ call.engine.returncode = 2
    /\ call.engine.stderr = <<" ", "boom", "\n">>
    /\ result.kind = "raise"
    /\ result.error.stderr_msg = <<"boom">>

-----------------------------------------------------------------------------
(* C15: when the engine executable is not there, every tool call that needs  *)
(* the engine fails with the executable-not-found error naming the missing   *)
(* executable, on the direct exec path and on the shell-mediated one alike,  *)
(* and not with the non-zero-exit error.                                     *)

C15_MissingEngineNotFound ==
    (call # Idle /\ invocations # <<>> /\ ~call.engine.installed)
    => result = Raise([type |-> "RuntimeError", what |-> "not found",
                       name |-> "ast-grep"])

-----------------------------------------------------------------------------
(* C16: a tool call starts at most one engine subprocess; when that          *)
(* subprocess ends with a non-zero status, cannot be started because the     *)
(* executable is missing, or prints output that cannot be decoded, the call  *)
(* ends with that failure: no second subprocess, no partial or substituted   *)
(* result.                                                                   *)

\* The engine ran, ended with status 0 and printed text that is no JSON
EnginePrintedGarbage(c) ==
    /\ c.engine.installed
    /\ c.engine.returncode = 0
    /\ strip(c.engine.stdout) # <<>>
    /\ ~json_loads(strip(c.engine.stdout)).ok

C16_OneSubprocessNoRetry ==
    /\ Len(invocations) <= 1
    /\ (call # Idle /\ invocations # <<>>)
          => /\ (EngineFailed(call) \/ ~call.engine.installed)
                   => result.kind = "raise" /\ result.error.type = "RuntimeError"
             /\ (call.tool \in DecodingTools /\ EnginePrintedGarbage(call))
                   => DecodingError(result)

C16_Witness ==
    /\ call.tool = "find_code"
    /\ call.output_format = "json"
    /\ EnginePrintedGarbage(call)
    /\ Len(invocations) = 1
    /\ DecodingError(result)

-----------------------------------------------------------------------------
(* C17: the configuration path is resolved flag first: a flag value that is  *)
(* given is the effective path whatever the environment holds; with no flag  *)
(* given, an environment value that is given is the effective path; with     *)
(* neither given the effective path is absent.  A value is given when it is  *)
(* there and not empty, and the effective path is the one the process has    *)
(* once startup has resolved it and gone on.                                 *)

Given(o) == ~IsNone(o) /\ Val(o) # ""

\* parse_args_and_get_config has returned
Resolved == phase \in {"configured", "registered", "serving"}

C17_FlagOverEnvironment ==
    Resolved
    => /\ Given(args_config) => CONFIG_PATH = args_config
       /\ (~Given(args_config) /\ Given(env_config)) => CONFIG_PATH = env_config
       /\ (~Given(args_config) /\ ~Given(env_config)) => CONFIG_PATH = None

C17_Witness ==
    /\ phase = "configured"
    /\ args_config = Some("/flag.yml")
    /\ env_config = Some("/env.yml")
    /\ CONFIG_PATH = Some("/flag.yml")

-----------------------------------------------------------------------------
(* C18, as stated: if a configuration path is given by the flag or by the    *)
(* environment and that path does not exist on disk, startup ends with a     *)
(* failure exit status before any tool is registered and before the server   *)
(* serves, and the effective configuration path is never set.                *)

Missing(o) == Given(o) /\ Val(o) \notin ExistingPaths

\* Startup ended in failure with nothing registered and no path set
StartupFailed ==
    /\ phase = "exited"
    /\ ~IsNone(exit_status) /\ Val(exit_status) # 0
    /\ registered = {}
    /\ CONFIG_PATH = None

\* Startup has not gone past resolving the path
NotStarted ==
    /\ phase \in {"startup", "exited"}
    /\ registered = {}
    /\ CONFIG_PATH = None

C18_MissingPathStopsStartup ==
    (Missing(args_config) \/ Missing(env_config))
    => /\ NotStarted
       /\ phase # "startup" => StartupFailed

(* C18, amended: the path that counts is the one precedence selects, the     *)
(* flag value if given and else the environment value.  If that path does    *)
(* not exist on disk, startup ends with a failure exit status before any     *)
(* tool is registered and before the server serves, and the effective        *)
(* configuration path is never set; an environment value that a given flag   *)
(* overrides is not looked at.                                               *)

Candidate == IF Given(args_config) THEN args_config ELSE env_config

C18_MissingCandidateStopsStartup ==
    /\ Missing(Candidate)
          => /\ NotStarted
             /\ phase # "startup" => StartupFailed
    /\ (~Missing(Candidate) /\ phase = "exited") => languages.kind = "raise"

C18_Witness ==
    /\ args_config = Some("")
    /\ env_config = Some("/gone.yml")
    /\ phase = "exited"
    /\ exit_status = Some(1)
    /\ registered = {}
    /\ CONFIG_PATH = None

-----------------------------------------------------------------------------
(* C19: the effective configuration path is assigned at most once, during    *)
(* startup, before any tool is registered or callable; after that no tool    *)
(* call and no helper changes it, so every engine invocation of the process  *)
(* is given the same path.                                                   *)

\* The path an engine invocation was given: the value after "--config"
ConfigGiven(argv) ==
    IF Len(argv) >= 4 /\ argv[3] = "--config" THEN Some(argv[4]) ELSE None

C19_ConfigPathFrozen ==
    /\ [][CONFIG_PATH' # CONFIG_PATH
             => /\ phase = "startup" /\ phase' = "configured"
                /\ CONFIG_PATH = None
                /\ registered = {} /\ registered' = {}]_vars
    /\ [](\A i \in 1..Len(invocations) :
             ConfigGiven(invocations[i].args) = CONFIG_PATH)

C19_Witness ==
    /\ phase = "serving"
    /\ CONFIG_PATH = Some("/env.yml")
    /\ call.tool = "find_code_by_rule"
    /\ Len(invocations) = 1
    /\ ConfigGiven(invocations[1].args) = Some("/env.yml")

-----------------------------------------------------------------------------
(* C20: format_matches_as_text renders each match's header as the file path, *)
(* a colon and the 1-based line numbers of the 0-based range: the one number *)
(* start+1 when the start line equals the end line, and start+1 "-" end+1    *)
(* otherwise; the body is the match text with only its trailing whitespace   *)
(* removed.  Lines 10..10 give "<file>:11" and lines 9..10 "<file>:10-11".   *)

\* The header the claim asks for
LineHeader(m) ==
    LET start == m.range.start.line
        end   == m.range.end.line
    IN IF start = end
       THEN <<m.file, ":", ToString(start + 1)>>
       ELSE <<m.file, ":", ToString(start + 1), "-", ToString(end + 1)>>

\* body is text with trailing whitespace, and nothing else, taken away
OnlyTrailingRemoved(body, text) ==
    /\ IsPrefix(body, text)
    /\ \A i \in (Len(body) + 1)..Len(text) : text[i] \in Whitespace
    /\ body = <<>> \/ body[Len(body)] \notin Whitespace

\* block is the header of m, a line break and the body of m
RendersMatch(block, m) ==
    LET h == LineHeader(m)
    IN /\ Len(block) > Len(h)
       /\ SubSeq(block, 1, Len(h)) = h
       /\ block[Len(h) + 1] = "\n"
       /\ OnlyTrailingRemoved(SubSeq(block, Len(h) + 2, Len(block)), m.text)

C20_HeaderAndBody ==
    /\ (IsSearch(call) /\ EngineListed(call) /\ ListsMatches(result))
          => LET blocks == BlocksOf(result.text)
                 listed == EngineList(call)
             IN /\ Len(blocks) <= Len(listed)
                /\ \A i \in 1..Len(blocks) : RendersMatch(blocks[i], listed[i])
    /\ LineHeader(MatchA) = <<"a.py", ":", "11">>
    /\ LineHeader(MatchB) = <<"b.py", ":", "10", "-", "11">>

C20_Witness ==
    /\ call.tool = "find_code"
    /\ EngineListed(call)
    /\ EngineList(call) = <<MatchB, MatchA>>
    /\ ListsMatches(result)
    /\ BlocksOf(result.text)
          = << <<"b.py", ":", "10", "-", "11", "\n", " ", "def f():", "\n", " ", "pass">>,
               <<"a.py", ":", "11", "\n", "x=1">> >>

-----------------------------------------------------------------------------
(* C21: for a list of n matches format_matches_as_text gives exactly n       *)
(* blocks, in the order of the list, with exactly one blank line between     *)
(* consecutive blocks and no separator before the first block or after the   *)
(* last; for the empty list it gives the empty string.                       *)

\* text is n blocks that render the first n of matches, in order, with one
\* blank line between them and none around them
BlocksInOrder(text, matches, n) ==
    LET blocks == SplitBlocks(text, <<>>)
    IN /\ Len(blocks) = n
       /\ n <= Len(matches)
       /\ \A i \in 1..n : RendersMatch(blocks[i], matches[i])
       /\ text[1] # "\n"
       /\ text[Len(text)] # "\n"

\* The n of "Found n matches": the length of the list that was rendered
HeaderCount(text) == CHOOSE n \in 0..(MaxMatches + 1) : ToString(n) = HeaderOf(text)[2]

C21_BlocksAndBlankLines ==
    /\ format_matches_as_text(<<>>) = <<>>
    /\ (IsSearch(call) /\ EngineListed(call) /\ ListsMatches(result))
          => BlocksInOrder(BodyOf(result.text), EngineList(call),
                           HeaderCount(result.text))

C21_Witness ==
    /\ call.tool = "find_code_by_rule"
    /\ EngineListed(call)
    /\ EngineList(call) = <<MatchA, MatchB>>
    /\ ListsMatches(result)
    /\ BodyOf(result.text)
          = <<"a.py", ":", "11", "\n", "x=1", "\n", "\n",
              "b.py", ":", "10", "-", "11", "\n", " ", "def f():", "\n", " ", "pass">>

-----------------------------------------------------------------------------
(* Startup over every state of the configuration file *)

InitLanguages ==
    /\ args_config \in FlagValues
    /\ env_config \in EnvValues
    /\ config_file \in ConfigFiles
    /\ languages = NoResult
    /\ phase = "startup"
    /\ exit_status = None
    /\ registered = {}
    /\ platform \in {"linux", "win32"}
    /\ CONFIG_PATH = None
    /\ call = Idle
    /\ invocations = <<>>
    /\ result = NoResult
    /\ prev = [call |-> Idle, invocations |-> <<>>, result |-> NoResult]

NextLanguages == Startup

SpecLanguages == InitLanguages /\ [][NextLanguages]_vars

-----------------------------------------------------------------------------
(* C22: get_supported_languages never fails the caller: whatever the state   *)
(* of the configuration (path absent, file missing, unreadable, unparsable,  *)
(* not a mapping, customLanguages absent, null, not a mapping, or with keys  *)
(* of any type) it returns a sorted list without duplicates that holds every *)
(* baseline language, and exactly the baseline list when the                 *)
(* custom-language mapping cannot be read.                                   *)

\* get_supported_languages has been called
Advertised == languages # NoResult

\* The position of a name in sorted order
Position(name) == CHOOSE i \in 1..Len(NameOrder) : NameOrder[i] = name

SortedNoDuplicates(items) ==
    \A i, j \in 1..Len(items) : i < j => Position(items[i]) < Position(items[j])

\* There is a customLanguages mapping that can be read
MappingReadable ==
    /\ ~IsNone(CONFIG_PATH)
    /\ config_file.exists /\ config_file.readable /\ config_file.parsable
    /\ config_file.config.type = "dict"
    /\ config_file.config.contains
    /\ config_file.config.custom.type = "dict"

C22_LanguagesNeverFail ==
    Advertised
    => /\ languages.kind = "return"
       /\ SortedNoDuplicates(languages.items)
       /\ \A i \in 1..Len(Baseline) : Baseline[i] \in Elements(languages.items)
       /\ ~MappingReadable => languages.items = Baseline

-----------------------------------------------------------------------------
(* A client that calls the four tools one after another; the call just       *)
(* answered is kept in prev when the next one arrives.                       *)

CallLimits == {None, Some(1)}

CallEngines ==
    PagingEngines
        \cup {[installed |-> TRUE, returncode |-> 0, stdout |-> <<>>, stderr |-> DebugTree]}

CalledFindCode ==
    /\ Callable
    /\ \E pattern \in Patterns, max_results \in CallLimits,
          output_format \in OutputFormats, engine \in CallEngines :
            find_code("/a", pattern, "", max_results, output_format, None, engine)

CalledFindCodeByRule ==
    /\ Callable
    /\ \E yaml \in Yamls, max_results \in CallLimits,
          output_format \in OutputFormats, engine \in CallEngines :
            find_code_by_rule("/a", yaml, max_results, output_format, None, engine)

CalledTestMatchCodeRule ==
    /\ Callable
    /\ \E code \in Codes, yaml \in Yamls, engine \in CallEngines :
            test_match_code_rule(code, yaml, engine)

CalledDumpSyntaxTree ==
    /\ Callable
    /\ \E code \in Codes, engine \in CallEngines :
            dump_syntax_tree(code, "python", "ast", engine)

NextCalls ==
    \/ Startup
    \/ CalledFindCode
    \/ CalledFindCodeByRule
    \/ CalledTestMatchCodeRule
    \/ CalledDumpSyntaxTree
    \/ RespondRecorded

SpecCalls == Init /\ [][NextCalls]_vars

-----------------------------------------------------------------------------
(* C23: tool calls keep no state between them: in any sequence of find_code, *)
(* find_code_by_rule, test_match_code_rule and dump_syntax_tree calls the    *)
(* result of a call is determined by its own parameters, the configuration   *)
(* path and the output of the one engine invocation it made itself, so a     *)
(* call never returns matches the engine produced for another call's key.    *)

\* The declared parameters of a call
ParametersOf(c) ==
    IF c.tool = "find_code"
    THEN <<c.project_folder, c.pattern, c.language, c.max_results, c.output_format>>
    ELSE IF c.tool = "find_code_by_rule"
    THEN <<c.project_folder, c.yaml, c.max_results, c.output_format>>
    ELSE IF c.tool = "test_match_code_rule"
    THEN <<c.code, c.yaml>>
    ELSE <<c.code, c.language, c.format>>

\* The same tool asked the same thing, and the engine did the same
SameAsk(c, d) ==
    /\ c.tool = d.tool
    /\ ParametersOf(c) = ParametersOf(d)
    /\ c.engine = d.engine

\* What the call returned comes from the engine run it made itself
OwnOutputOnly ==
    /\ Len(invocations) <= 1
    /\ (Returned(result) /\ result.type = "list" /\ result.items # <<>>)
          => /\ Len(invocations) = 1
             /\ EngineListed(call)
             /\ IsPrefix(result.items, EngineList(call))
    /\ (IsSearch(call) /\ ListsMatches(result))
          => /\ Len(invocations) = 1
             /\ EngineListed(call)
             /\ BlocksInOrder(BodyOf(result.text), EngineList(call),
                              HeaderCount(result.text))
    /\ (call.tool = "dump_syntax_tree" /\ Returned(result))
          => /\ Len(invocations) = 1
             /\ result.text = strip(call.engine.stderr)
    /\ (~call.engine.installed \/ call.engine.returncode # 0)
          => result.kind = "raise"

====
